---- MODULE Spec2Model ----
(***************************************************************************)
(* A model of dockrice: the MountSet merge rule (dockerpath.py), the       *)
(* container runner with its signal forwarding (utils.py) and the command  *)
(* builder that turns parsed argument values into command tokens and bind  *)
(* mounts (argparse.py, dockerpath.py).                                    *)
(***************************************************************************)
EXTENDS Integers, Sequences, FiniteSets, TLC

\* ------------------------------------------------------------------------
\* Bounds of the model
\* ------------------------------------------------------------------------

\* Number of docker.types.Mount objects that can be alive at once.
MaxObj == 3

\* Longest iterable handed to MountSet(iterable) / MountSet.update.
MaxIter == 2

\* Number of signals delivered to the caller process during one run_image.
MaxSignals == 2

\* Number of log lines the container writes.
MaxLines == 1

\* DockerAction.__call__ invocations during one parse.
MaxCalls == 2

\* Length of a list value handed to one DockerAction.__call__.
MaxLeaves == 2

\* Tokens of one command line that no declared argument claims.
MaxUnknown == 2

\* ------------------------------------------------------------------------
\* docker.types.Mount objects and the MountSet (dockerpath.py)
\* ------------------------------------------------------------------------

\* The (target, source) pairs mounts are drawn from.
Pairs == { <<"/t1", "/s1">>, <<"/t1", "/s2">>, <<"/t2", "/s1">> }

\* A Mount as DockerPath.get_mount builds it: a dict with these four keys.
Mount(target, source, read_only) ==
    [Target |-> target, Source |-> source, Type |-> "bind", ReadOnly |-> read_only]

\* The content of a heap slot no Mount has been constructed in.
NoMount == [Target |-> "", Source |-> "", Type |-> "", ReadOnly |-> FALSE]

ObjIds == 1..MaxObj

VARIABLES
    heap,     \* Mount objects by identity: ObjIds -> Mount dict (or NoMount)
    nobj,     \* number of Mount objects constructed so far
    data,     \* MountSet.data: the list of Mount objects (identities) held
    asked,    \* history: per (target, source) pair, the read-only flags add was called with
    last      \* history: the last MountSet operation, its argument and how it ended

msVars == <<heap, nobj, data, asked, last>>

VARIABLES
    pc,            \* where run_image stands
    prev,          \* the signal handlers installed before run_image was called
    handlers,      \* the process's current handler of each signal
    old_handlers,  \* KillContainerOnInterrupt._old_handlers, in insertion order
    xi,            \* __exit__: position in _old_handlers.items()
    container,     \* KillContainerOnInterrupt.container: "None" or "set"
    engine,        \* the container resource: absent, running, exited, removed
    exitCode,      \* the status code the container exits with
    auto_remove,   \* run_image's auto_remove argument
    detach,        \* the detach argument the caller passes in kwargs
    run_detach,    \* the detach argument containers.run was called with, or "none"
    return_logs,   \* run_image's return_logs argument
    frames,        \* the stack of running _handler invocations, innermost last
    exc,           \* the exception propagating out of run_image, or "none"
    emitted,       \* number of log lines the container has written
    consumed,      \* number of log lines run_image has read from the stream
    printed,       \* the lines written to the caller's output, in order
    ret_string,    \* the lines collected for the caller, in order
    status,        \* the value read from container.wait()["StatusCode"], or -1
    deliveries,    \* history: the signals delivered, and what became of each
    restored       \* history: per signal, how often its previous handler was re-installed

runVars == <<pc, prev, handlers, old_handlers, xi, container, engine, exitCode,
             auto_remove, detach, run_detach, return_logs, frames, exc, emitted, consumed, printed,
             ret_string, status, deliveries, restored>>

VARIABLES
    exists,            \* the host paths that exist on the filesystem
    run_command,       \* DockerActionFactory.run_command: the command tokens
    default_mounts,    \* DockerActionFactory.default_mounts: a list of Mount objects
    action,            \* the DockerAction declared with add_argument, or NoAction
    namespace,         \* the value the action stored last
    dockrice_verbose,  \* DockerActionFactory.dockrice_verbose
    device_requests,   \* docker_kwargs["device_requests"]
    ncalls,            \* DockerAction.__call__ invocations so far
    cberr,             \* the exception that ended the parse, or "none"
    uuids,             \* the number of values uuid.uuid4() has given so far
    hist               \* history: one record per path leaf the builder resolved

cbVars == <<exists, run_command, default_mounts, action, namespace,
            dockrice_verbose, device_requests, ncalls, cberr, uuids, hist>>

VARIABLES
    parser,        \* the ArgumentParser's settings: image, _raise_on_unknown
    unknown_args,  \* the tokens argparse recognised no argument for, in order
    lastcall,      \* history: the last DockerAction.__call__ and what it appended
    handed,        \* what run_docker handed to run_image: command and mounts
    exit_value     \* the value of the DockerizeDoneExit parse_known_args raised

parseVars == <<parser, unknown_args, lastcall, handed, exit_value>>

VARIABLES
    image,         \* get_image's image argument: a handle or a name
    try_pull,      \* get_image's try_pull argument
    try_login,     \* get_image's try_login argument
    gi_pc,         \* where get_image stands
    gi_calls,      \* the calls get_image made to the engine and the user, in order
    login_kwargs,  \* the keyword arguments of client.login built so far
    gi_result      \* how get_image ended: the value returned or the exception

imgVars == <<image, try_pull, try_login, gi_pc, gi_calls, login_kwargs, gi_result>>

vars == <<msVars, runVars, cbVars, parseVars, imgVars>>

\* MountSet._mirror_readonly: a copy with the read-only flag flipped.
mirror_readonly(x) == [x EXCEPT !.ReadOnly = ~x.ReadOnly]

\* `value in self.data` for a Python list of dicts: some element equals value.
ListContains(h, d, value) == \E i \in 1..Len(d) : h[d[i]] = value

\* list.index(value): the position of the first element equal to value.
ListIndex(h, d, value) ==
    CHOOSE i \in 1..Len(d) :
        /\ h[d[i]] = value
        /\ \A j \in 1..(i - 1) : h[d[j]] # value

\* list.remove(value): the list without its first element equal to value.
ListRemove(h, d, value) ==
    LET i == ListIndex(h, d, value)
    IN  SubSeq(d, 1, i - 1) \o SubSeq(d, i + 1, Len(d))

\* MountSet.__contains__
contains(h, d, value) ==
    ListContains(h, d, value) \/ ListContains(h, d, mirror_readonly(value))

\* A plausible slip in add: the mirrored entry is not looked for.
add_no_mirror(h, d, item) ==
    IF ~ListContains(h, d, h[item])
    THEN [heap |-> h, data |-> Append(d, item)]
    ELSE [heap |-> h, data |-> d]

\* A plausible slip in add: the upgrade re-inserts the mount at the end.
add_reinsert(h, d, item) ==
    IF ~ListContains(h, d, h[item])
    THEN LET rev_item == mirror_readonly(h[item])
         IN  IF ListContains(h, d, rev_item)
             THEN [heap |-> h, data |-> Append(ListRemove(h, d, rev_item), item)]
             ELSE [heap |-> h, data |-> Append(d, item)]
    ELSE [heap |-> h, data |-> d]

\* A plausible slip in add: a mirrored entry is found and left as it is.
add_no_upgrade(h, d, item) ==
    IF ~ListContains(h, d, h[item])
    THEN LET rev_item == mirror_readonly(h[item])
         IN  IF ListContains(h, d, rev_item)
             THEN [heap |-> h, data |-> d]
             ELSE [heap |-> h, data |-> Append(d, item)]
    ELSE [heap |-> h, data |-> d]

\* MountSet.add(item): item is a Mount object (its identity); the object
\* itself is appended, and an upgrade writes into the object already held.
add(h, d, item) ==
    IF ~ListContains(h, d, h[item])
    THEN LET rev_item == mirror_readonly(h[item])
         IN  IF ListContains(h, d, rev_item)
             THEN [heap |-> [h EXCEPT ![d[ListIndex(h, d, rev_item)]].ReadOnly = FALSE],
                   data |-> d]
             ELSE [heap |-> h, data |-> Append(d, item)]
    ELSE [heap |-> h, data |-> d]

\* MountSet.update(iterable): add every element in order.
RECURSIVE update(_, _, _)
update(h, d, iterable) ==
    IF iterable = << >>
    THEN [heap |-> h, data |-> d]
    ELSE LET r == add(h, d, Head(iterable))
         IN  update(r.heap, r.data, Tail(iterable))

\* MountSet.__init__(iterable): an empty list, then add every element.
MountSetInit(h, iterable) == update(h, << >>, iterable)

\* MountSet.discard(item): exact match first, then the mirrored one, else nothing.
discard(h, d, item) ==
    IF ListContains(h, d, h[item])
    THEN ListRemove(h, d, h[item])
    ELSE IF ListContains(h, d, mirror_readonly(h[item]))
         THEN ListRemove(h, d, mirror_readonly(h[item]))
         ELSE d

\* remove without the second try for the mirrored mount.
remove_exact_only(h, d, item) ==
    IF ListContains(h, d, h[item])
    THEN [data |-> ListRemove(h, d, h[item]), err |-> "none"]
    ELSE [data |-> d, err |-> "KeyError"]

\* MountSet.remove(item): as discard, but KeyError when neither is present.
remove(h, d, item) ==
    IF ListContains(h, d, h[item])
    THEN [data |-> ListRemove(h, d, h[item]), err |-> "none"]
    ELSE IF ListContains(h, d, mirror_readonly(h[item]))
         THEN [data |-> ListRemove(h, d, mirror_readonly(h[item])), err |-> "none"]
         ELSE [data |-> d, err |-> "KeyError"]

\* The entries of a MountSet as values, in list order (MountSet.__iter__).
Entries(h, d) == [i \in 1..Len(d) |-> h[d[i]]]

PairOf(m) == <<m.Target, m.Source>>

\* Iterables of Mount objects of length at most MaxIter over the live objects.
Iterables(n) == UNION { [1..k -> 1..n] : k \in 0..MaxIter }

\* The iterables that list distinct objects in the order of their construction
\* (the objects' values are free, so every order of values occurs among them).
OrderedIterables(n) ==
    { it \in Iterables(n) : \A i, j \in 1..Len(it) : i < j => it[i] < it[j] }

\* How an add relates to the set it is applied to (history, for the witnesses).
AddKind(h, d, item) ==
    IF \E i \in 1..Len(d) : PairOf(h[d[i]]) = PairOf(h[item])
    THEN LET i == CHOOSE k \in 1..Len(d) : PairOf(h[d[k]]) = PairOf(h[item])
         IN  IF h[d[i]] = h[item] THEN "equal"
             ELSE IF h[d[i]].ReadOnly THEN "upgrade" ELSE "keep_rw"
    ELSE "append"

NoOp == [op |-> "none", item |-> 0, kind |-> "", err |-> "none"]

NoAsked == [p \in Pairs |-> {}]

\* asked after add was called with each element of iterable, flags as they
\* are at the time of each call.
RECURSIVE AskedAfter(_, _, _, _)
AskedAfter(a, h, d, iterable) ==
    IF iterable = << >>
    THEN a
    ELSE LET item == Head(iterable)
             r == add(h, d, item)
             p == PairOf(h[item])
         IN  AskedAfter([a EXCEPT ![p] = @ \cup {h[item].ReadOnly}],
                        r.heap, r.data, Tail(iterable))

\* ------------------------------------------------------------------------
\* The container runner: KillContainerOnInterrupt and run_image (utils.py)
\* ------------------------------------------------------------------------

\* Two of CATCHABLE_SIGNALS: one whose default action ends the process and
\* one whose default action is to do nothing.
CATCHABLE_SIGNALS == {"SIGTERM", "SIGWINCH"}

\* What the operating system does with a signal left at SIG_DFL.
DefaultAction(sig) == IF sig = "SIGTERM" THEN "terminate" ELSE "ignore"

\* What signal.signal can return as the previous handler: the default, ignore,
\* a Python function that returns, a Python function that raises (such as
\* default_int_handler).
Dispositions == {"SIG_DFL", "SIG_IGN", "fn_return", "fn_raise"}

\* The positions of run_image: before the call, KillContainerOnInterrupt
\* .__enter__ (install the handlers, then containers.run, then the assignment
\* to self.container), the with body (logs, wait), __exit__ (restore,
\* remove), and the ways it ends.
InEnter == {"install", "assign"}
InBody == {"logs", "wait"}
InExit == {"restore", "remove"}
Ended == {"returned", "raised", "dead"}

\* The state before run_image is called, with nothing of it chosen yet.
RunIdle ==
    /\ pc = "idle"
    /\ prev = [s \in CATCHABLE_SIGNALS |-> "SIG_DFL"]
    /\ handlers = [s \in CATCHABLE_SIGNALS |-> "SIG_DFL"]
    /\ old_handlers = << >>
    /\ xi = 0
    /\ container = "None"
    /\ engine = "absent"
    /\ exitCode = 0
    /\ auto_remove = TRUE
    /\ detach = TRUE
    /\ run_detach = "none"
    /\ return_logs = FALSE
    /\ frames = << >>
    /\ exc = "none"
    /\ emitted = 0
    /\ consumed = 0
    /\ printed = << >>
    /\ ret_string = << >>
    /\ status = -1
    /\ deliveries = << >>
    /\ restored = [s \in CATCHABLE_SIGNALS |-> 0]

\* ------------------------------------------------------------------------
\* Paths and DockerPath (dockerpath.py), the values of the command builder
\* ------------------------------------------------------------------------

\* A path is the sequence of its parts, "/" first when it is absolute
\* (pathlib's .parts); << >> is the path ".".
IsAbsolute(p) == p # << >> /\ p[1] = "/"

\* PurePath.name: the last part, empty for the root and for ".".
Name(p) == IF p = << >> \/ p = <<"/">> THEN "" ELSE p[Len(p)]

\* PurePath.parent: the path without its last part; the root and "." are
\* their own parents.
Parent(p) == IF p = << >> \/ p = <<"/">> THEN p ELSE SubSeq(p, 1, Len(p) - 1)

\* PurePosixPath(p, name) for a single part name.
JoinPath(p, name) == IF name = "" THEN p ELSE Append(p, name)

\* The directory the caller runs in.
Cwd == <<"/", "data">>

\* Path.resolve(strict=False) for paths without symlinks and "..": a
\* relative path is taken from the working directory.
Resolve(p) == IF IsAbsolute(p) THEN p ELSE Cwd \o p

\* The parts joined with the separator "/".
RECURSIVE JoinSep(_)
JoinSep(parts) ==
    IF Len(parts) <= 1
    THEN parts
    ELSE <<Head(parts), "/">> \o JoinSep(Tail(parts))

\* str(path): a string is the sequence of its pieces, separators included.
Str(p) ==
    IF p = << >> THEN <<".">>
    ELSE IF IsAbsolute(p) THEN <<"/">> \o JoinSep(Tail(p))
    ELSE JoinSep(p)

\* pathlib.Path(string): the parts between the separators.
ParsePath(s) ==
    IF s = <<".">> THEN << >>
    ELSE IF s # << >> /\ s[1] = "/"
         THEN <<"/">> \o SelectSeq(Tail(s), LAMBDA x : x # "/")
         ELSE SelectSeq(s, LAMBDA x : x # "/")

\* The k-th value uuid.uuid4() gives: one it has not given before.
Uuid(k) == ToString(k)

\* The mount_path argument of a DockerPath: MountOption.host,
\* MountOption.random, or an explicit container path.
MountHost == [opt |-> "host", to |-> << >>]
MountRandom == [opt |-> "random", to |-> << >>]
MountExplicit(to) == [opt |-> "explicit", to |-> to]

\* DockerPath.__init__: the host path and the three settings; mount_parent is
\* "None", "True" or "False".
DockerPath(path, mount_path, read_only, mount_parent) ==
    [path |-> path, mount_path |-> mount_path, read_only |-> read_only,
     mount_parent |-> mount_parent]

\* The automatic setting read the wrong way round.
mount_parent_inverted(dp, ex) ==
    IF dp.mount_parent = "None"
    THEN Resolve(dp.path) \in ex
    ELSE dp.mount_parent = "True"

\* DockerPath.mount_parent, read while the host paths ex exist.
mount_parent(dp, ex) ==
    IF dp.mount_parent = "None"
    THEN Resolve(dp.path) \notin ex
    ELSE dp.mount_parent = "True"

\* mount_path without the assertion that the result is absolute.
mount_path_unchecked(dp, ex, k) ==
    LET mp == IF dp.mount_path.opt = "host"
              THEN Resolve(dp.path)
              ELSE IF dp.mount_path.opt = "random"
                   THEN JoinPath(<<"/", "temp", Uuid(k + 1)>>, Name(dp.path))
                   ELSE IF mount_parent(dp, ex)
                        THEN JoinPath(dp.mount_path.to, Name(dp.path))
                        ELSE dp.mount_path.to
    IN  [ok |-> TRUE, path |-> mp,
         k |-> IF dp.mount_path.opt = "random" THEN k + 1 ELSE k]

\* DockerPath.mount_path, one read, after uuid.uuid4() has given k values: ok
\* is the assertion that the result is absolute, k the count afterwards.
mount_path(dp, ex, k) ==
    LET mp == IF dp.mount_path.opt = "host"
              THEN Resolve(dp.path)
              ELSE IF dp.mount_path.opt = "random"
                   THEN JoinPath(<<"/", "temp", Uuid(k + 1)>>, Name(dp.path))
                   ELSE IF mount_parent(dp, ex)
                        THEN JoinPath(dp.mount_path.to, Name(dp.path))
                        ELSE dp.mount_path.to
    IN  [ok |-> IsAbsolute(mp), path |-> mp,
         k |-> IF dp.mount_path.opt = "random" THEN k + 1 ELSE k]

\* DockerPath._get_target_source: it reads mount_parent and mount_path anew.
get_target_source(dp, ex, k) ==
    LET mp == mount_path(dp, ex, k)
    IN  IF mount_parent(dp, ex)
        THEN [ok |-> mp.ok, parent |-> TRUE, k |-> mp.k, path |-> mp.path,
              target |-> Str(Parent(mp.path)), source |-> Str(Resolve(Parent(dp.path)))]
        ELSE [ok |-> mp.ok, parent |-> FALSE, k |-> mp.k, path |-> mp.path,
              target |-> Str(mp.path), source |-> Str(Resolve(dp.path))]

\* DockerPath.get_mount
get_mount(dp, ex, k) ==
    LET ts == get_target_source(dp, ex, k)
    IN  [ok |-> ts.ok, parent |-> ts.parent, k |-> ts.k, path |-> ts.path,
         mount |-> Mount(ts.target, ts.source, dp.read_only)]

\* The host paths arguments name ("." among them), the ones that may exist,
\* and the ones that always do: the root and the working directory.
HostPaths == { <<"/", "data", "out">>, <<"out">>, << >> }
MayExist == { <<"/", "data", "out">> }
AlwaysExist == { <<"/">>, Cwd }

\* The mount_path settings in use: the two options, an absolute explicit
\* target and a relative one.
MountPaths == { MountHost, MountRandom, MountExplicit(<<"/", "mnt">>),
                MountExplicit(<<"rel">>) }

NoPath == << >>
NoDockerPath == DockerPath(NoPath, MountHost, FALSE, "None")

\* A value handed to the builder: a string, a plain path, a DockerPath
\* object, or a list of values.
StrValue(s) ==
    [kind |-> "str", s |-> s, path |-> NoPath, dp |-> NoDockerPath, items |-> << >>]
PathValue(p) ==
    [kind |-> "Path", s |-> << >>, path |-> p, dp |-> NoDockerPath, items |-> << >>]
DockerPathValue(dp) ==
    [kind |-> "DockerPath", s |-> << >>, path |-> NoPath, dp |-> dp, items |-> << >>]
ListValue(items) ==
    [kind |-> "list", s |-> << >>, path |-> NoPath, dp |-> NoDockerPath, items |-> items]

\* An int, the result of int(s).
IntValue(s) ==
    [kind |-> "int", s |-> s, path |-> NoPath, dp |-> NoDockerPath, items |-> << >>]

NoValue == StrValue(<< >>)

\* DockerPath objects the caller built itself and hands over as values.
GivenDockerPaths ==
    { DockerPath(<<"/", "data", "out">>, MountRandom, FALSE, "None"),
      DockerPath(<<"out">>, MountHost, TRUE, "None") }

\* The leaves of argument values: raw strings from the command line and
\* DockerPath objects.
Leaves ==
    {StrValue(<<"v">>), StrValue(<<"7">>)}
        \cup {StrValue(Str(p)) : p \in HostPaths}
        \cup {DockerPathValue(dp) : dp \in GivenDockerPaths}

\* The leaves list values are made of: a path string and a DockerPath object.
ListLeaves ==
    { StrValue(Str(<<"/", "data", "out">>)),
      DockerPathValue(DockerPath(<<"/", "data", "out">>, MountRandom, FALSE, "None")) }

\* A list in a list: the same path string at both levels.
NestedValues ==
    { ListValue(<<ListValue(<<StrValue(Str(<<"/", "data", "out">>))>>),
                  StrValue(Str(<<"/", "data", "out">>))>>) }

\* The argument values: a leaf, a list of at most MaxLeaves leaves, or a
\* nested list.
Values ==
    Leaves \cup {ListValue(items) :
                    items \in UNION {[1..k -> ListLeaves] : k \in 0..MaxLeaves}}
           \cup NestedValues

\* The choices= of an argument, where it has them.
Choices == {StrValue(<<"v">>), PathValue(<<"out">>), IntValue(<<"7">>)}

\* The strings handed to --gpus, as pieces: "all", "device=0,1", "device="
\* and "bogus".
GpuArgs == { <<"all">>, <<"device=", "0", ",", "1">>, <<"device=">>, <<"bogus">> }

\* str.split(",") on a string of one-piece ids: what stands between the
\* commas, the empty string where nothing does.
RECURSIVE Split(_)
Split(s) ==
    IF s = << >> THEN <<"">>
    ELSE IF s[1] = "," THEN <<"">> \o Split(Tail(s))
    ELSE IF Len(s) = 1 THEN s
    ELSE <<s[1]>> \o Split(Tail(Tail(s)))

\* resolve_gpu_device that takes every string it does not know for no device.
resolve_gpu_device_lenient(arg) ==
    IF arg = <<"all">>
    THEN [ok |-> TRUE,
          requests |-> <<[count |-> -1, device_ids |-> << >>, capabilities |-> <<<<"gpu">>>>]>>]
    ELSE IF arg # << >> /\ arg[1] = "device="
         THEN [ok |-> TRUE,
               requests |-> <<[count |-> 0, device_ids |-> Split(Tail(arg)),
                               capabilities |-> <<<<"gpu">>>>]>>]
         ELSE [ok |-> TRUE, requests |-> << >>]

\* utils.resolve_gpu_device: "all", "device=<id>[,<id>...]", anything else.
resolve_gpu_device(arg) ==
    IF arg = <<"all">>
    THEN [ok |-> TRUE,
          requests |-> <<[count |-> -1, device_ids |-> << >>, capabilities |-> <<<<"gpu">>>>]>>]
    ELSE IF arg # << >> /\ arg[1] = "device="
         THEN [ok |-> TRUE,
               requests |-> <<[count |-> 0, device_ids |-> Split(Tail(arg)),
                               capabilities |-> <<<<"gpu">>>>]>>]
         ELSE [ok |-> FALSE, requests |-> << >>]

\* DockerPathFactory.__init__ and DockerPathFactory.__call__
DockerPathFactory(mp, ro, par) ==
    [mount_path |-> mp, read_only |-> ro, mount_parent |-> par]

FactoryCall(f, path) == DockerPath(path, f.mount_path, f.read_only, f.mount_parent)

\* The factory of an argument declared without mount settings.
PlainFactory == DockerPathFactory(MountHost, FALSE, "None")

\* A DockerAction: the postponed type and choices, the DockerPathFactory
\* settings, the default mount (a Mount object, 0 for None) and the option
\* string it is invoked with (<< >> for a positional argument).
DockerAction(hidden_type, hidden_choices, factory, default_mount, option_string) ==
    [hidden_type |-> hidden_type, hidden_choices |-> hidden_choices,
     factory |-> factory, default_mount |-> default_mount,
     option_string |-> option_string]

NoAction == DockerAction("", "None", PlainFactory, 0, << >>)

\* The two arguments ArgumentParser.__init__ declares.
VerboseAction == DockerAction("None", "None", PlainFactory, 0, <<"--dockrice-verbose">>)
GpusAction == DockerAction("str", "None", PlainFactory, 0, <<"--gpus">>)

\* The state before a parser is constructed.
CBIdle ==
    /\ exists = {}
    /\ run_command = << >>
    /\ default_mounts = << >>
    /\ action = NoAction
    /\ namespace = NoValue
    /\ dockrice_verbose = FALSE
    /\ device_requests = << >>
    /\ ncalls = 0
    /\ cberr = "none"
    /\ uuids = 0
    /\ hist = << >>

\* ArgumentParser.__init__: the image (or "None") and _raise_on_unknown, which
\* parse_args sets before it calls parse_known_args.
Parser(img, raise_on_unknown) == [image |-> img, raise_on_unknown |-> raise_on_unknown]

PlainParser == Parser("img", FALSE)

\* Nothing handed to run_image yet.
NoHanded == [done |-> FALSE, command |-> << >>, mounts |-> << >>, existing |-> << >>]

\* No DockerAction.__call__ yet.
NoCall == [a |-> NoAction, values |-> NoValue, before |-> << >>, devices |-> << >>,
           removed |-> FALSE,
           err |-> "none"]

\* The state before parse_known_args is called.
ParseIdle ==
    /\ parser = PlainParser
    /\ unknown_args = << >>
    /\ lastcall = NoCall
    /\ handed = NoHanded
    /\ exit_value = -1

\* The state before get_image is called.
\* An image argument: a docker.models.images.Image, or a name given as a
\* string, a sequence of pieces with its "/" separators.
ImageHandle == [kind |-> "Image", name |-> << >>]
ImageName(name) == [kind |-> "str", name |-> name]

\* The state before get_image is called.
ImgIdle ==
    /\ image = ImageName(<<"name">>)
    /\ try_pull = TRUE
    /\ try_login = TRUE
    /\ gi_pc = "idle"
    /\ gi_calls = << >>
    /\ login_kwargs = {}
    /\ gi_result = "none"

MSEmpty ==
    /\ heap = [i \in ObjIds |-> NoMount]
    /\ nobj = 0
    /\ data = << >>
    /\ asked = NoAsked
    /\ last = NoOp

MSInit ==
    /\ MSEmpty
    /\ RunIdle
    /\ CBIdle
    /\ ParseIdle
    /\ ImgIdle

\* A caller constructs a Mount (DockerPath.get_mount, or Mount(...) directly).
NewMount ==
    /\ nobj < MaxObj
    /\ \E p \in Pairs, ro \in BOOLEAN :
          heap' = [heap EXCEPT ![nobj + 1] = Mount(p[1], p[2], ro)]
    /\ nobj' = nobj + 1
    /\ last' = NoOp
    /\ UNCHANGED <<data, asked, runVars, cbVars, parseVars, imgVars>>

\* mounts.add(item): the effect on the set and on the objects.
AddCall(item) ==
    LET r == add(heap, data, item)
    IN  /\ heap' = r.heap
        /\ data' = r.data
        /\ UNCHANGED nobj

\* mounts.update(iterable): the effect on the set and on the objects.
UpdateCall(iterable) ==
    LET r == update(heap, data, iterable)
    IN  /\ heap' = r.heap
        /\ data' = r.data
        /\ UNCHANGED nobj

\* mounts.add(item)
MSAdd ==
    \E item \in 1..nobj :
        /\ AddCall(item)
        /\ UNCHANGED <<asked, last, runVars, cbVars, parseVars, imgVars>>

\* mounts.update(iterable)
MSUpdate ==
    \E iterable \in Iterables(nobj) :
        /\ UpdateCall(iterable)
        /\ UNCHANGED <<asked, last, runVars, cbVars, parseVars, imgVars>>

\* mounts = MountSet(iterable): a new set built from the given objects, here
\* the entries of the current set followed by further mounts, as run_docker
\* builds MountSet([*self.mounts, *self.default_mounts]), or any iterable.
MSConstruct ==
    \E iterable \in Iterables(nobj), keep \in BOOLEAN :
        LET r == MountSetInit(heap, IF keep THEN data \o iterable ELSE iterable)
        IN  /\ heap' = r.heap
            /\ data' = r.data
            /\ UNCHANGED <<nobj, asked, last, runVars, cbVars, parseVars, imgVars>>

\* mounts.discard(item)
MSDiscard ==
    \E item \in 1..nobj :
        /\ data' = discard(heap, data, item)
        /\ UNCHANGED <<heap, nobj, asked, last, runVars, cbVars, parseVars, imgVars>>

\* mounts.remove(item); a KeyError leaves the set as it is.
MSRemove ==
    \E item \in 1..nobj :
        /\ data' = remove(heap, data, item).data
        /\ UNCHANGED <<heap, nobj, asked, last, runVars, cbVars, parseVars, imgVars>>

\* Every MountSet operation, on Mount objects the callers keep references to.
MSNext ==
    \/ NewMount
    \/ MSAdd
    \/ MSUpdate
    \/ MSConstruct
    \/ MSDiscard
    \/ MSRemove

SpecMS == MSInit /\ [][MSNext]_vars

\* mounts.add(item), with the call and the flag it asks for recorded.
TrackedAdd ==
    \E item \in 1..nobj :
        /\ AddCall(item)
        /\ asked' = AskedAfter(asked, heap, data, <<item>>)
        /\ last' = [NoOp EXCEPT !.op = "add", !.item = item,
                                !.kind = AddKind(heap, data, item)]
        /\ UNCHANGED <<runVars, cbVars, parseVars, imgVars>>

\* mounts.update(iterable), with the flag each of its adds asks for recorded.
TrackedUpdate ==
    \E iterable \in OrderedIterables(nobj) :
        /\ UpdateCall(iterable)
        /\ asked' = AskedAfter(asked, heap, data, iterable)
        /\ last' = [NoOp EXCEPT !.op = "update"]
        /\ UNCHANGED <<runVars, cbVars, parseVars, imgVars>>

\* The MountSet under add / update only (no removals).
AddNext ==
    \/ NewMount
    \/ TrackedAdd
    \/ TrackedUpdate

SpecAdd == MSInit /\ [][AddNext]_vars

\* How the set holds the mount a removal is called with: the equal mount,
\* the mirrored one, or neither (history, for the witnesses).
RemoveKind(h, d, item) ==
    IF ListContains(h, d, h[item]) THEN "exact"
    ELSE IF ListContains(h, d, mirror_readonly(h[item])) THEN "mirror"
    ELSE "absent"

\* mounts.discard(item), with the call recorded.
TrackedDiscard ==
    \E item \in 1..nobj :
        /\ data' = discard(heap, data, item)
        /\ last' = [NoOp EXCEPT !.op = "discard", !.item = item,
                                !.kind = RemoveKind(heap, data, item)]
        /\ UNCHANGED <<heap, nobj, asked, runVars, cbVars, parseVars, imgVars>>

\* mounts.remove(item), with the call and its exception recorded; a KeyError
\* leaves the set as it is.
TrackedRemove ==
    \E item \in 1..nobj :
        /\ data' = remove(heap, data, item).data
        /\ last' = [NoOp EXCEPT !.op = "remove", !.item = item,
                                !.kind = RemoveKind(heap, data, item),
                                !.err = remove(heap, data, item).err]
        /\ UNCHANGED <<heap, nobj, asked, runVars, cbVars, parseVars, imgVars>>

\* The MountSet under add, discard and remove.
RemNext ==
    \/ NewMount
    \/ TrackedAdd
    \/ TrackedDiscard
    \/ TrackedRemove

SpecRem == MSInit /\ [][RemNext]_vars

\* ------------------------------------------------------------------------
\* Claims on the MountSet
\* ------------------------------------------------------------------------

\* C1: after any sequence of MountSet operations (construction from an
\* iterable, add, update, discard, remove) no two entries of the set have the
\* same (target, source) pair, whatever their read-only flags.
C1_UniquePair ==
    \A i, j \in 1..Len(data) :
        PairOf(heap[data[i]]) = PairOf(heap[data[j]]) => i = j

\* C1 witness: mounts of one pair with both flags were constructed and handed
\* to the set, which holds the pair once, next to another entry.
C1_Witness ==
    /\ Len(data) >= 2
    /\ \E a, b \in 1..nobj :
          /\ a # b
          /\ PairOf(heap[a]) = PairOf(heap[b])
          /\ a \in {data[i] : i \in 1..Len(data)}
          /\ b \notin {data[i] : i \in 1..Len(data)}

\* C2: add of a read-write mount matching a read-only entry on (target,
\* source) turns that entry read-write where it stands (length and order
\* unchanged); add of a read-only mount matching a read-write entry, or of a
\* mount equal to an entry, changes nothing; any other add appends the mount.
C2_AddMerge ==
    [][ last'.op = "add" =>
          LET item == last'.item
              m == heap[item]
              E == Entries(heap, data)
              E2 == Entries(heap', data')
              hit == {i \in 1..Len(data) : PairOf(E[i]) = PairOf(m)}
          IN  IF hit = {}
              THEN E2 = Append(E, m) /\ data' = Append(data, item)
              ELSE \A i \in hit :
                      IF E[i].ReadOnly /\ ~m.ReadOnly
                      THEN /\ data' = data
                           /\ E2 = [E EXCEPT ![i].ReadOnly = FALSE]
                      ELSE /\ data' = data
                           /\ E2 = E
    ]_vars

\* C2 witness: an add has just upgraded a read-only entry that is not the
\* last entry of the set.
C2_Witness ==
    /\ last.op = "add"
    /\ last.kind = "upgrade"
    /\ Len(data) >= 2
    /\ PairOf(heap[data[1]]) = PairOf(heap[last.item])
    /\ ~heap[data[1]].ReadOnly

\* C3: under add / update only, the entry held for a (target, source) pair is
\* read-only exactly when every add for that pair asked for read-only, and a
\* pair that was added is held.
C3_NeverStricter ==
    \A p \in Pairs :
        asked[p] # {} =>
            /\ \E i \in 1..Len(data) : PairOf(heap[data[i]]) = p
            /\ \A i \in 1..Len(data) :
                  PairOf(heap[data[i]]) = p =>
                      (heap[data[i]].ReadOnly <=> (FALSE \notin asked[p]))

\* C3 witness: one pair was asked for both read-only and read-write, another
\* only read-only, and both are held.
C3_Witness ==
    /\ \E p \in Pairs : asked[p] = {TRUE, FALSE}
    /\ \E p \in Pairs : asked[p] = {TRUE}
    /\ Len(data) >= 2

\* ------------------------------------------------------------------------
\* run_image: the main flow, the signal handler and the container engine
\* ------------------------------------------------------------------------

\* run_image is about to be called: the handlers in place are among prevs,
\* the caller's detach argument among detaches (True when it passes none).
RunStart(prevs, detaches) ==
    /\ MSEmpty
    /\ CBIdle
    /\ ParseIdle
    /\ ImgIdle
    /\ pc = "idle"
    /\ prev \in prevs
    /\ detach \in detaches
    /\ run_detach = "none"
    /\ handlers = prev
    /\ old_handlers = << >>
    /\ xi = 0
    /\ container = "None"
    /\ engine = "absent"
    /\ exitCode = 0
    /\ auto_remove \in BOOLEAN
    /\ return_logs \in BOOLEAN
    /\ frames = << >>
    /\ exc = "none"
    /\ emitted = 0
    /\ consumed = 0
    /\ printed = << >>
    /\ ret_string = << >>
    /\ status = -1
    /\ deliveries = << >>
    /\ restored = [s \in CATCHABLE_SIGNALS |-> 0]

\* run_image called without a detach argument, whatever handlers are in place.
RunInit == RunStart([CATCHABLE_SIGNALS -> Dispositions], {TRUE})

\* run_image called with detach passed as True or as False, from a process
\* whose handlers are the default ones or functions that return.
LifeInit == RunStart([CATCHABLE_SIGNALS -> {"SIG_DFL", "fn_return"}], BOOLEAN)

\* The signals _old_handlers has an entry for.
Installed == {old_handlers[i].sig : i \in 1..Len(old_handlers)}

\* self._old_handlers[sig]
OldOf(sig) ==
    old_handlers[CHOOSE i \in 1..Len(old_handlers) : old_handlers[i].sig = sig].old

\* Python runs signal handlers in the main thread: the main flow stands still
\* while a handler invocation is on the stack.
MainRuns == frames = << >> /\ pc \notin {"idle", "dead"}

\* Where an exception raised at position p takes run_image: out of __enter__
\* or out of __exit__ without more ado, out of the with body through __exit__.
RaiseTo(p) ==
    IF p \in InBody THEN "restore"
    ELSE IF p \in InEnter \cup InExit THEN "raised"
    ELSE p

\* An exception is raised in the code that is running (a handler invocation
\* or the main flow): no handler invocation catches it, so all of them are
\* unwound and the main flow continues as RaiseTo says.
Raise(kind) ==
    /\ frames' = << >>
    /\ pc' = RaiseTo(pc)
    /\ exc' = IF pc \in Ended THEN exc ELSE kind
    /\ xi' = IF pc \in InBody THEN 1 ELSE xi

\* The process is terminated by a signal's default action.
Die ==
    /\ frames' = << >>
    /\ pc' = "dead"
    /\ UNCHANGED <<exc, xi>>

\* KillContainerOnInterrupt.__init__: detach is popped from kwargs (a warning
\* is printed for False) and kept nowhere; the container is None.
Construct ==
    /\ pc = "idle"
    /\ pc' = "install"
    /\ container' = "None"
    /\ old_handlers' = << >>
    /\ UNCHANGED <<prev, handlers, xi, engine, exitCode, auto_remove, detach, run_detach, return_logs,
                   frames, exc, emitted, consumed, printed, ret_string, status,
                   deliveries, restored, msVars, cbVars, parseVars, imgVars>>

\* __enter__, one turn of the loop:
\* self._old_handlers[sig] = signal.signal(sig, self._handler)
Install ==
    /\ MainRuns
    /\ pc = "install"
    /\ \E sig \in CATCHABLE_SIGNALS \ Installed :
          /\ old_handlers' = Append(old_handlers, [sig |-> sig, old |-> handlers[sig]])
          /\ handlers' = [handlers EXCEPT ![sig] = "runner"]
    /\ UNCHANGED <<pc, prev, xi, container, engine, exitCode, auto_remove, detach, run_detach,
                   return_logs, frames, exc, emitted, consumed, printed, ret_string,
                   status, deliveries, restored, msVars, cbVars, parseVars, imgVars>>

\* The launch with the caller's detach argument passed on.
Launch_as_asked ==
    /\ MainRuns
    /\ pc = "install"
    /\ Installed = CATCHABLE_SIGNALS
    /\ run_detach' = IF detach THEN "detached" ELSE "attached"
    /\ \/ /\ engine' = "running"
          /\ pc' = "assign"
          /\ exc' = exc
       \/ /\ engine' = engine
          /\ pc' = "raised"
          /\ exc' = "LaunchError"
    /\ UNCHANGED <<prev, handlers, old_handlers, xi, container, exitCode,
                   auto_remove, detach, return_logs, frames, emitted, consumed,
                   printed, ret_string, status, deliveries, restored, msVars, cbVars,
                   parseVars, imgVars>>

\* __enter__: self.client.containers.run(..., detach=True) returns a started
\* container, or raises; the caller's detach was popped from kwargs in
\* __init__ and is not passed on.
Launch ==
    /\ MainRuns
    /\ pc = "install"
    /\ Installed = CATCHABLE_SIGNALS
    /\ run_detach' = "detached"
    /\ \/ /\ engine' = "running"
          /\ pc' = "assign"
          /\ exc' = exc
       \/ /\ engine' = engine
          /\ pc' = "raised"
          /\ exc' = "LaunchError"
    /\ UNCHANGED <<prev, handlers, old_handlers, xi, container, exitCode,
                   auto_remove, detach, return_logs, frames, emitted, consumed,
                   printed, ret_string, status, deliveries, restored, msVars, cbVars,
                   parseVars, imgVars>>

\* __enter__: self.container = <the container>; return self.container
Assign ==
    /\ MainRuns
    /\ pc = "assign"
    /\ container' = "set"
    /\ pc' = "logs"
    /\ UNCHANGED <<prev, handlers, old_handlers, xi, engine, exitCode, auto_remove, detach, run_detach,
                   return_logs, frames, exc, emitted, consumed, printed, ret_string,
                   status, deliveries, restored, msVars, cbVars, parseVars, imgVars>>

\* A line of the log that is printed in both modes.
ReadLine_printed ==
    /\ MainRuns
    /\ pc = "logs"
    /\ consumed < emitted
    /\ consumed' = consumed + 1
    /\ printed' = Append(printed, consumed + 1)
    /\ ret_string' = IF return_logs THEN Append(ret_string, consumed + 1) ELSE ret_string
    /\ UNCHANGED <<pc, prev, handlers, old_handlers, xi, container, engine, exitCode,
                   auto_remove, detach, run_detach, return_logs, frames, exc, emitted, status, deliveries,
                   restored, msVars, cbVars, parseVars, imgVars>>

\* run_image: one line of container.logs(stream=True), collected or printed.
ReadLine ==
    /\ MainRuns
    /\ pc = "logs"
    /\ consumed < emitted
    /\ consumed' = consumed + 1
    /\ IF return_logs
       THEN ret_string' = Append(ret_string, consumed + 1) /\ printed' = printed
       ELSE printed' = Append(printed, consumed + 1) /\ ret_string' = ret_string
    /\ UNCHANGED <<pc, prev, handlers, old_handlers, xi, container, engine, exitCode,
                   auto_remove, detach, run_detach, return_logs, frames, exc, emitted, status, deliveries,
                   restored, msVars, cbVars, parseVars, imgVars>>

\* run_image: the log stream ends once the container has stopped and every
\* line was read.
LogsEnd ==
    /\ MainRuns
    /\ pc = "logs"
    /\ engine # "running"
    /\ consumed = emitted
    /\ pc' = "wait"
    /\ UNCHANGED <<prev, handlers, old_handlers, xi, container, engine, exitCode,
                   auto_remove, detach, run_detach, return_logs, frames, exc, emitted, consumed, printed,
                   ret_string, status, deliveries, restored, msVars, cbVars, parseVars, imgVars>>

\* run_image: container.wait()["StatusCode"], then the return leaves the with
\* body.
Wait ==
    /\ MainRuns
    /\ pc = "wait"
    /\ engine = "exited"
    /\ status' = exitCode
    /\ pc' = "restore"
    /\ xi' = 1
    /\ UNCHANGED <<prev, handlers, old_handlers, container, engine, exitCode,
                   auto_remove, detach, run_detach, return_logs, frames, exc, emitted, consumed, printed,
                   ret_string, deliveries, restored, msVars, cbVars, parseVars, imgVars>>

\* run_image: container.logs or container.wait raises.
BodyRaise ==
    /\ MainRuns
    /\ pc \in InBody
    /\ Raise("APIError")
    /\ UNCHANGED <<prev, handlers, old_handlers, container, engine, exitCode,
                   auto_remove, detach, run_detach, return_logs, emitted, consumed, printed, ret_string,
                   status, deliveries, restored, msVars, cbVars, parseVars, imgVars>>

\* __exit__, one turn of the loop: signal.signal(sig, old_handler)
Restore ==
    /\ MainRuns
    /\ pc = "restore"
    /\ xi <= Len(old_handlers)
    /\ handlers' = [handlers EXCEPT ![old_handlers[xi].sig] = old_handlers[xi].old]
    /\ restored' = [restored EXCEPT ![old_handlers[xi].sig] = @ + 1]
    /\ xi' = xi + 1
    /\ UNCHANGED <<pc, prev, old_handlers, container, engine, exitCode, auto_remove, detach, run_detach,
                   return_logs, frames, exc, emitted, consumed, printed, ret_string,
                   status, deliveries, msVars, cbVars, parseVars, imgVars>>

\* __exit__ after the loop: self.container.remove(force=True) if auto_remove;
\* then run_image returns, or the exception of the body goes on.
Remove ==
    /\ MainRuns
    /\ pc = "restore"
    /\ xi > Len(old_handlers)
    /\ engine' = IF auto_remove THEN "removed" ELSE engine
    /\ pc' = IF exc = "none" THEN "returned" ELSE "raised"
    /\ UNCHANGED <<prev, handlers, old_handlers, xi, container, exitCode,
                   auto_remove, detach, run_detach, return_logs, frames, exc, emitted, consumed, printed,
                   ret_string, status, deliveries, restored, msVars, cbVars, parseVars, imgVars>>

\* A signal is delivered to the caller process while run_image is under way.
\* With _handler installed for it, a handler invocation starts on top of
\* whatever is running; otherwise the handler in place acts: ignore, the
\* default action, a function.
Deliver ==
    /\ pc \notin {"idle"} \cup Ended
    /\ Len(deliveries) < MaxSignals
    /\ \E sig \in CATCHABLE_SIGNALS :
          LET d == [sig |-> sig,
                    running |-> pc \in InBody,
                    starting |-> pc \in InEnter /\ engine # "absent",
                    via |-> IF handlers[sig] = "runner" THEN "runner" ELSE "direct",
                    fwd |-> "no",
                    deleg |-> handlers[sig] \notin {"runner", "SIG_IGN"},
                    nested |-> frames # << >> /\ frames[Len(frames)].at = "start"]
          IN  /\ deliveries' = Append(deliveries, d)
              /\ IF handlers[sig] = "runner"
                 THEN /\ frames' = Append(frames, [sig |-> sig, at |-> "start",
                                                   idx |-> Len(deliveries) + 1])
                      /\ UNCHANGED <<pc, exc, xi>>
                 ELSE IF handlers[sig] = "fn_raise"
                      THEN Raise("HandlerError")
                      ELSE IF handlers[sig] = "SIG_DFL" /\ DefaultAction(sig) = "terminate"
                           THEN Die
                           ELSE UNCHANGED <<pc, exc, xi, frames>>
    /\ UNCHANGED <<prev, handlers, old_handlers, container, engine, exitCode,
                   auto_remove, detach, run_detach, return_logs, emitted, consumed, printed, ret_string,
                   status, restored, msVars, cbVars, parseVars, imgVars>>

\* The handler invocation that is running: the innermost one.
Top == frames[Len(frames)]

SetTop(at) == [frames EXCEPT ![Len(frames)].at = at]

Pop == SubSeq(frames, 1, Len(frames) - 1)

\* _handler: if self.container is not None: self.container.kill(sig)
\* The engine refuses to signal a container that is not running (APIError).
HandlerForward ==
    /\ frames # << >>
    /\ Top.at = "start"
    /\ IF container = "None"
       THEN /\ frames' = SetTop("delegate")
            /\ UNCHANGED <<pc, exc, xi, deliveries>>
       ELSE IF engine = "running"
            THEN /\ deliveries' = [deliveries EXCEPT ![Top.idx].fwd = "sent"]
                 /\ frames' = SetTop("delegate")
                 /\ UNCHANGED <<pc, exc, xi>>
            ELSE /\ deliveries' = [deliveries EXCEPT ![Top.idx].fwd = "gone"]
                 /\ Raise("APIError")
    /\ UNCHANGED <<prev, handlers, old_handlers, container, engine, exitCode,
                   auto_remove, detach, run_detach, return_logs, emitted, consumed, printed, ret_string,
                   status, restored, msVars, cbVars, parseVars, imgVars>>

\* _handler: old_handler = self._old_handlers[sig]; call it if it is callable;
\* if it is SIG_DFL, signal.signal(sig, signal.SIG_DFL) (os.kill comes next).
HandlerDelegate ==
    /\ frames # << >>
    /\ Top.at = "delegate"
    /\ LET old == OldOf(Top.sig)
       IN  IF old = "fn_return"
           THEN /\ deliveries' = [deliveries EXCEPT ![Top.idx].deleg = TRUE]
                /\ frames' = Pop
                /\ UNCHANGED <<pc, exc, xi, handlers, restored>>
           ELSE IF old = "fn_raise"
           THEN /\ deliveries' = [deliveries EXCEPT ![Top.idx].deleg = TRUE]
                /\ Raise("HandlerError")
                /\ UNCHANGED <<handlers, restored>>
           ELSE IF old = "SIG_DFL"
           THEN /\ handlers' = [handlers EXCEPT ![Top.sig] = "SIG_DFL"]
                /\ restored' = [restored EXCEPT ![Top.sig] = @ + 1]
                /\ frames' = SetTop("rekill")
                /\ UNCHANGED <<pc, exc, xi, deliveries>>
           ELSE /\ frames' = Pop
                /\ UNCHANGED <<pc, exc, xi, handlers, restored, deliveries>>
    /\ UNCHANGED <<prev, old_handlers, container, engine, exitCode, auto_remove, detach, run_detach,
                   return_logs, emitted, consumed, printed, ret_string, status, msVars, cbVars, parseVars, imgVars>>

\* _handler: os.kill(os.getpid(), sig), with the signal back at SIG_DFL.
HandlerRekill ==
    /\ frames # << >>
    /\ Top.at = "rekill"
    /\ deliveries' = [deliveries EXCEPT ![Top.idx].deleg = TRUE]
    /\ IF DefaultAction(Top.sig) = "terminate"
       THEN Die
       ELSE /\ frames' = Pop
            /\ UNCHANGED <<pc, exc, xi>>
    /\ UNCHANGED <<prev, handlers, old_handlers, container, engine, exitCode,
                   auto_remove, detach, run_detach, return_logs, emitted, consumed, printed, ret_string,
                   status, restored, msVars, cbVars, parseVars, imgVars>>

\* The container stops by itself, with some status code.
ContainerExit ==
    /\ engine = "running"
    /\ engine' = "exited"
    /\ exitCode' \in {0, 1}
    /\ UNCHANGED <<pc, prev, handlers, old_handlers, xi, container, auto_remove, detach, run_detach,
                   return_logs, frames, exc, emitted, consumed, printed, ret_string,
                   status, deliveries, restored, msVars, cbVars, parseVars, imgVars>>

\* The container writes a line to its log.
ContainerEmit ==
    /\ engine = "running"
    /\ emitted < MaxLines
    /\ emitted' = emitted + 1
    /\ UNCHANGED <<pc, prev, handlers, old_handlers, xi, container, engine, exitCode,
                   auto_remove, detach, run_detach, return_logs, frames, exc, consumed, printed,
                   ret_string, status, deliveries, restored, msVars, cbVars, parseVars, imgVars>>

\* The exit status a process ends with however SystemExit got a zero.
ExitStatus_zero(ret_value) == 0

\* The exit status of a process that ends with SystemExit(ret_value), for an
\* int: its low eight bits.
ExitStatus(ret_value) == ret_value % 256

\* parse_known_args: ret_value = run_docker(...), which returns what
\* run_image returned (called there without return_logs), then
\* raise DockerizeDoneExit(ret_value).
Exit ==
    /\ pc = "returned"
    /\ ~return_logs
    /\ exit_value = -1
    /\ exit_value' = ExitStatus(status)
    /\ UNCHANGED <<runVars, msVars, cbVars, parser, unknown_args, lastcall, handed,
                   imgVars>>

RunNext ==
    \/ Exit
    \/ Construct
    \/ Install
    \/ Launch
    \/ Assign
    \/ ReadLine
    \/ LogsEnd
    \/ Wait
    \/ BodyRaise
    \/ Restore
    \/ Remove
    \/ Deliver
    \/ HandlerForward
    \/ HandlerDelegate
    \/ HandlerRekill
    \/ ContainerExit
    \/ ContainerEmit

SpecRun == RunInit /\ [][RunNext]_vars

\* The runner with the detach argument passed either way.
SpecLife == LifeInit /\ [][RunNext]_vars

\* ------------------------------------------------------------------------
\* Claims on the container runner
\* ------------------------------------------------------------------------

\* The signals delivered so far, as a set of positions.
Delivered == 1..Len(deliveries)

\* Every signal so far arrived while the with body was running (Running).
OnlyWhileRunning == \A i \in Delivered : deliveries[i].running

\* C4: if container creation fails (containers.run raises in __enter__), the
\* error reaches the caller and every catchable signal has the handler again
\* that it had before run_image was called.
C4_LaunchFailureRestoresHandlers ==
    (pc = "raised" /\ exc = "LaunchError") =>
        \A sig \in CATCHABLE_SIGNALS : handlers[sig] = prev[sig]

\* C5: with auto_remove, detach, run_detach, once the container was started and recorded, it is
\* removed on every way run_image ends: normal completion, an exception while
\* streaming or waiting, a signal delivered during Running whatever handler
\* was installed before (the default one that ends the process included).
C5_RemovedOnEveryExit ==
    (auto_remove /\ container = "set" /\ pc \in Ended /\ OnlyWhileRunning) =>
        engine = "removed"

\* C6: when a termination signal was delivered during Running, it was relayed
\* to the container, and once the run scope is left every signal's previous
\* handler was restored exactly once, also with two signals in a row.
C6_RelayedAndRestoredOnce ==
    ( /\ pc \in {"returned", "raised"}
      /\ container = "set"
      /\ OnlyWhileRunning
      /\ \E i \in Delivered : DefaultAction(deliveries[i].sig) = "terminate" ) =>
        /\ \A i \in Delivered :
              DefaultAction(deliveries[i].sig) = "terminate" => deliveries[i].fwd # "no"
        /\ \A sig \in CATCHABLE_SIGNALS : restored[sig] = 1

\* C7: every catchable signal delivered during Running is first sent to the
\* container by the runner's handler and only then handed to the handler
\* installed before the run: that handler (a function, the default
\* disposition) never acts on a signal that was not forwarded first.
C7_ForwardBeforeDelegate ==
    \A i \in Delivered :
        (deliveries[i].running /\ deliveries[i].deleg) => deliveries[i].fwd # "no"

\* C8: a second signal arriving while the handler of a first one is still
\* forwarding is forwarded too, and the container is still torn down when the
\* caller's run ends.
C8_ReentrantSafe ==
    ( /\ pc \in Ended
      /\ auto_remove
      /\ container = "set"
      /\ OnlyWhileRunning
      /\ \E i \in Delivered : deliveries[i].nested ) =>
        /\ \A i \in Delivered : deliveries[i].nested => deliveries[i].fwd # "no"
        /\ engine = "removed"

\* ------------------------------------------------------------------------
\* The command builder: DockerActionFactory and DockerAction (argparse.py)
\* ------------------------------------------------------------------------

\* The script the parser is constructed for.
ScriptName == <<"/", "data", "main.py">>

\* The defaults an argument is declared with: none, a path string, a
\* DockerPath object.
Defaults ==
    { NoValue, StrValue(Str(<<"/", "data", "in">>)),
      DockerPathValue(DockerPath(<<"/", "data", "in">>, MountRandom, TRUE, "None")) }

\* ArgumentParser.__init__ with DockerActionFactory.__init__: the run prefix,
\* and for a script name its mount (the parent, read-only) and its container
\* path; the empty script name adds neither.
CBConstructed ==
    /\ RunIdle
    /\ ImgIdle
    /\ exists \in {AlwaysExist \cup may : may \in SUBSET MayExist}
    /\ default_mounts = << >>
    /\ action = NoAction
    /\ namespace = NoValue
    /\ dockrice_verbose = FALSE
    /\ device_requests = << >>
    /\ ncalls = 0
    /\ cberr = "none"
    /\ uuids = 0
    /\ hist = << >>
    /\ asked = NoAsked
    /\ last = NoOp
    /\ \E with_script \in BOOLEAN :
          LET script_name == DockerPath(ScriptName, MountHost, TRUE, "True")
              empty == [i \in ObjIds |-> NoMount]
          IN  IF with_script
              THEN LET r == add([empty EXCEPT ![1] = get_mount(script_name, exists, 0).mount],
                                << >>, 1)
                   IN  /\ heap = r.heap
                       /\ nobj = 1
                       /\ data = r.data
                       /\ run_command = <<<<"python">>,
                                          Str(mount_path(script_name, exists, 0).path)>>
              ELSE /\ heap = empty
                   /\ nobj = 0
                   /\ data = << >>
                   /\ run_command = <<<<"python">>>>

\* The declarations looked at: an argument without a path type has no mount
\* settings and no default mount; choices and a DockerPath default come with
\* the plain mount settings; read_only comes with mount_parent left at None.
Combined(hidden_type, hidden_choices, f, default) ==
    /\ f.read_only => f.mount_parent = "None"
    /\ hidden_type # "Path" => (f = PlainFactory /\ default = NoValue)
    /\ hidden_choices # "None" => (f = PlainFactory /\ default = NoValue)
    /\ default.kind = "DockerPath" => f = PlainFactory

\* The parser as constructed, before anything is parsed.
CBInit ==
    /\ ParseIdle
    /\ CBConstructed

\* ArgumentParser.add_argument, that is DockerAction.__init__: with a path
\* type and a default, the default's mount is built and appended to
\* default_mounts; the type, the choices and the mount settings are kept.
AddArgument ==
    /\ cberr = "none"
    /\ ~handed.done
    /\ action = NoAction
    /\ \E hidden_type \in {"None", "int", "Path"}, hidden_choices \in {"None", "some"},
          mp \in MountPaths, ro \in BOOLEAN, par \in {"None", "True", "False"},
          default \in Defaults, option_string \in {<< >>, <<"--out">>} :
          LET f == DockerPathFactory(mp, ro, par)
              dp == IF default.kind = "DockerPath"
                    THEN default.dp
                    ELSE FactoryCall(f, ParsePath(default.s))
              m == get_mount(dp, exists, uuids)
          IN  /\ Combined(hidden_type, hidden_choices, f, default)
              /\ IF hidden_type = "Path" /\ default # NoValue
                 THEN IF m.ok
                      THEN /\ nobj < MaxObj
                           /\ heap' = [heap EXCEPT ![nobj + 1] = m.mount]
                           /\ nobj' = nobj + 1
                           /\ default_mounts' = Append(default_mounts, nobj + 1)
                           /\ action' = DockerAction(hidden_type, hidden_choices, f,
                                                     nobj + 1, option_string)
                           /\ cberr' = cberr
                           /\ uuids' = m.k
                      ELSE /\ cberr' = "AssertionError"
                           /\ uuids' = m.k
                           /\ UNCHANGED <<heap, nobj, default_mounts, action>>
                 ELSE /\ action' = DockerAction(hidden_type, hidden_choices, f, 0,
                                                option_string)
                      /\ UNCHANGED <<heap, nobj, default_mounts, cberr, uuids>>
    /\ UNCHANGED <<data, asked, last, exists, run_command, namespace,
                   dockrice_verbose, device_requests, ncalls, hist, runVars,
                   parseVars, imgVars>>

\* The strings int() accepts.
Numerals == {<<"7">>}

\* self._hidden_type(parse_value): no type leaves the value as it is,
\* pathlib.Path makes a plain path of a string and of a DockerPath, int makes
\* an int of a numeral.
Convert(hidden_type, parse_value) ==
    IF hidden_type = "Path"
    THEN IF parse_value.kind = "DockerPath"
         THEN PathValue(parse_value.dp.path)
         ELSE PathValue(ParsePath(parse_value.s))
    ELSE IF hidden_type = "int"
    THEN IntValue(parse_value.s)
    ELSE parse_value

\* The exception self._hidden_type(parse_value) raises: int() raises
\* ValueError for a string that is no numeral and TypeError for an object
\* that is no number; pathlib.Path takes every string and every path.
ConvertError(hidden_type, parse_value) ==
    IF hidden_type = "int"
    THEN IF parse_value.kind # "str" THEN "TypeError"
         ELSE IF parse_value.s \notin Numerals THEN "ValueError"
         ELSE "none"
    ELSE "none"

\* _recursive_resolve_args for a leaf: type conversion, choice check, the
\* conversion of a plain path to a DockerPath, then for a DockerPath the token
\* str(mount_path) and the mount get_mount() (each reads mount_path), for
\* anything else the value as it came. st is the builder's state so far.
ResolveLeaf(a, ex, st, parse_value) ==
    LET conv == Convert(a.hidden_type, parse_value)
        ret_value == IF conv.kind = "Path"
                     THEN DockerPathValue(FactoryCall(a.factory, conv.path))
                     ELSE conv
        dp == ret_value.dp
        token == mount_path(dp, ex, st.k)
        m == get_mount(dp, ex, token.k)
        h1 == [st.heap EXCEPT ![st.nobj + 1] = m.mount]
        r == add(h1, st.data, st.nobj + 1)
    IN  IF ConvertError(a.hidden_type, parse_value) # "none"
        THEN [st EXCEPT !.err = ConvertError(a.hidden_type, parse_value)]
        ELSE IF a.hidden_choices # "None" /\ conv \notin Choices
        THEN [st EXCEPT !.err = "ArgumentError"]
        ELSE IF ret_value.kind = "DockerPath"
             THEN IF ~token.ok
                  THEN [st EXCEPT !.err = "AssertionError", !.k = token.k]
                  ELSE IF ~m.ok
                       THEN [st EXCEPT !.err = "AssertionError", !.k = m.k,
                                       !.run_command = Append(@, Str(token.path))]
                       ELSE IF st.nobj >= MaxObj \/ st.n >= MaxLeaves
                            THEN [st EXCEPT !.err = "full"]
                            ELSE [run_command |-> Append(st.run_command, Str(token.path)),
                                  heap |-> r.heap,
                                  nobj |-> st.nobj + 1,
                                  data |-> r.data,
                                  hist |-> Append(st.hist,
                                              [dp |-> dp,
                                               call |-> st.call,
                                               ex |-> ex,
                                               mount_path |-> m.path,
                                               given |-> parse_value.kind = "DockerPath"
                                                         /\ a.hidden_type # "Path",
                                               token |-> Str(token.path),
                                               parent |-> m.parent,
                                               mount |-> m.mount,
                                               before |-> Entries(st.heap, st.data),
                                               after |-> Entries(r.heap, r.data)]),
                                  err |-> "none",
                                  n |-> st.n + 1,
                                  k |-> m.k,
                                  call |-> st.call,
                                  ret |-> ret_value]
             ELSE [st EXCEPT !.run_command = Append(@, parse_value.s),
                             !.ret = ret_value]

\* DockerAction._recursive_resolve_args: a list is walked in order, and the
\* first exception ends the walk with what was done so far left in place.
RECURSIVE recursive_resolve_args(_, _, _, _)
RECURSIVE ResolveItems(_, _, _, _, _)
RECURSIVE ResolveItems_flat(_, _, _, _, _)

\* The walk with the result of an inner list spliced into the outer one.
ResolveItems_flat(a, ex, st, items, ret_value) ==
    IF items = << >>
    THEN [st EXCEPT !.ret = ListValue(ret_value)]
    ELSE LET s1 == recursive_resolve_args(a, ex, st, Head(items))
         IN  IF s1.err # "none"
             THEN s1
             ELSE ResolveItems_flat(a, ex, s1, Tail(items),
                                    ret_value \o (IF s1.ret.kind = "list"
                                                  THEN s1.ret.items
                                                  ELSE <<s1.ret>>))

recursive_resolve_args(a, ex, st, parse_value) ==
    IF parse_value.kind = "list"
    THEN ResolveItems(a, ex, st, parse_value.items, << >>)
    ELSE ResolveLeaf(a, ex, st, parse_value)

ResolveItems(a, ex, st, items, ret_value) ==
    IF items = << >>
    THEN [st EXCEPT !.ret = ListValue(ret_value)]
    ELSE LET s1 == recursive_resolve_args(a, ex, st, Head(items))
         IN  IF s1.err # "none"
             THEN s1
             ELSE ResolveItems(a, ex, s1, Tail(items), Append(ret_value, s1.ret))

\* The arguments the parser has: the two of ArgumentParser.__init__ and the
\* one declared with add_argument.
Declared == {VerboseAction, GpusAction} \cup (IF action = NoAction THEN {} ELSE {action})

\* What argparse hands to an action as values: nothing for the verbose flag,
\* the raw string for --gpus, a raw string, an object or a list otherwise.
CallValues(a) ==
    IF a = VerboseAction THEN {ListValue(<< >>)}
    ELSE IF a = GpusAction THEN {StrValue(g) : g \in GpuArgs}
    ELSE Values

\* The default mount left among the pending defaults when the action is called.
RemoveDefault_kept(h, dm, a) == [ok |-> TRUE, list |-> dm]

\* self.default_mounts.remove(self._default_mount), where there is one: the
\* first equal element goes, and ValueError if there is none.
RemoveDefault(h, dm, a) ==
    IF a.default_mount = 0
    THEN [ok |-> TRUE, list |-> dm]
    ELSE IF ListContains(h, dm, h[a.default_mount])
         THEN [ok |-> TRUE, list |-> ListRemove(h, dm, h[a.default_mount])]
         ELSE [ok |-> FALSE, list |-> dm]

\* The command without the option string of the call.
WithOption_dropped(cmd, option_string) == cmd

\* if option_string is not None: self.run_command.append(option_string)
WithOption(cmd, option_string) ==
    IF option_string = << >> THEN cmd ELSE Append(cmd, option_string)

\* DockerAction.__call__: the default mount is removed; --dockrice-verbose
\* and --gpus are taken care of and end the call; otherwise the option string
\* is appended, the values are resolved (tokens and mounts), and the
\* resolved values are stored.
Call ==
    /\ cberr = "none"
    /\ ~handed.done
    /\ ncalls < MaxCalls
    /\ ncalls' = ncalls + 1
    /\ \E a \in Declared :
       \E values \in CallValues(a) :
       \E rd \in {RemoveDefault(heap, default_mounts, a)} :
          IF ~rd.ok
          THEN /\ cberr' = "ValueError"
               /\ lastcall' = [a |-> a, values |-> values, before |-> run_command,
                                      devices |-> device_requests,
                              removed |-> FALSE,
                              err |-> "ValueError"]
               /\ UNCHANGED <<heap, nobj, data, run_command, default_mounts,
                              namespace, dockrice_verbose, device_requests, hist,
                              uuids>>
          ELSE /\ default_mounts' = rd.list
               /\ IF a.option_string = <<"--dockrice-verbose">>
                  THEN /\ dockrice_verbose' = TRUE
                       /\ lastcall' = [a |-> a, values |-> values, before |-> run_command,
                                      devices |-> device_requests,
                                      removed |-> TRUE,
                                      err |-> "none"]
                       /\ UNCHANGED <<heap, nobj, data, run_command, namespace,
                                      device_requests, hist, cberr, uuids>>
                  ELSE IF a.option_string = <<"--gpus">>
                  THEN \E gpu \in {resolve_gpu_device(values.s)} :
                       /\ device_requests' = device_requests \o gpu.requests
                       /\ cberr' = IF gpu.ok THEN "none" ELSE "ValueError"
                       /\ lastcall' = [a |-> a, values |-> values, before |-> run_command,
                                      devices |-> device_requests,
                                      removed |-> TRUE,
                                      err |-> cberr']
                       /\ UNCHANGED <<heap, nobj, data, run_command, namespace,
                                      dockrice_verbose, hist, uuids>>
                  ELSE \E st \in {recursive_resolve_args(a, exists,
                                      [run_command |-> WithOption(run_command,
                                                                  a.option_string),
                                       heap |-> heap, nobj |-> nobj, data |-> data,
                                       hist |-> hist, err |-> "none", n |-> 0,
                                       k |-> uuids, ret |-> NoValue,
                                       call |-> ncalls + 1],
                                      values)} :
                       /\ st.err # "full"
                       /\ run_command' = st.run_command
                       /\ heap' = st.heap
                       /\ nobj' = st.nobj
                       /\ data' = st.data
                       /\ hist' = st.hist
                       /\ cberr' = st.err
                       /\ uuids' = st.k
                       /\ namespace' = IF st.err = "none" THEN st.ret ELSE namespace
                       /\ lastcall' = [a |-> a, values |-> values, before |-> run_command,
                                      devices |-> device_requests,
                                      removed |-> TRUE,
                                      err |-> st.err]
                       /\ UNCHANGED <<dockrice_verbose, device_requests>>
    /\ UNCHANGED <<asked, last, exists, action, runVars, parser, unknown_args,
                   handed, exit_value, imgVars>>

\* A host path is created or deleted while the parser is at work.
FsChange ==
    /\ cberr = "none"
    /\ ~handed.done
    /\ \E p \in MayExist :
          exists' = IF p \in exists THEN exists \ {p} ELSE exists \cup {p}
    /\ UNCHANGED <<msVars, run_command, default_mounts, action, namespace,
                   dockrice_verbose, device_requests, ncalls, cberr, uuids, hist,
                   runVars, parseVars, imgVars>>

\* The tokens a command line can hold that no argument is declared for.
UnknownTokens == { <<"--x">>, <<"y">> }

\* argparse meets a token no declared argument claims: it goes to the
\* unknown arguments parse_known_args returns.
Unknown ==
    /\ cberr = "none"
    /\ ~handed.done
    /\ Len(unknown_args) < MaxUnknown
    /\ \E t \in UnknownTokens : unknown_args' = Append(unknown_args, t)
    /\ UNCHANGED <<msVars, cbVars, runVars, parser, lastcall, handed, exit_value,
                   imgVars>>

\* ArgumentParser.parse_known_args once argparse is through the command
\* line, with DockerActionFactory.run_docker: unknown arguments are an error
\* after parse_args; no user callback; no image is a ValueError; get_image
\* returns or raises; then run_image is called with run_command and
\* MountSet([*self.mounts, *self.default_mounts]); handed.existing is what
\* self.mounts held when that set was built.
RunDocker ==
    /\ cberr = "none"
    /\ ~handed.done
    /\ \E image_found \in BOOLEAN :
          LET r == MountSetInit(heap, data \o default_mounts)
          IN  IF parser.raise_on_unknown /\ unknown_args # << >>
              THEN /\ cberr' = "SystemExit"
                   /\ UNCHANGED <<heap, handed>>
              ELSE IF parser.image = "None"
              THEN /\ cberr' = "ValueError"
                   /\ UNCHANGED <<heap, handed>>
              ELSE IF ~image_found
              THEN /\ cberr' = "ImageError"
                   /\ UNCHANGED <<heap, handed>>
              ELSE /\ heap' = r.heap
                   /\ handed' = [done |-> TRUE, command |-> run_command,
                                 mounts |-> Entries(r.heap, r.data),
                                 existing |-> Entries(heap, data)]
                   /\ cberr' = cberr
    /\ UNCHANGED <<nobj, data, asked, last, exists, run_command, default_mounts,
                   action, namespace, dockrice_verbose, device_requests, ncalls, uuids,
                   hist, runVars, parser, unknown_args, lastcall, exit_value, imgVars>>

CBNext ==
    \/ AddArgument
    \/ Call
    \/ FsChange

SpecCB == CBInit /\ [][CBNext]_vars

\* The parsers looked at: with and without an image, used through
\* parse_known_args or through parse_args.
Parsers == {Parser("img", FALSE), Parser("img", TRUE), Parser("None", FALSE)}

\* A parse from the constructed parser to the call of run_image.
ParseInit ==
    /\ parser \in Parsers
    /\ unknown_args = << >>
    /\ lastcall = NoCall
    /\ handed = NoHanded
    /\ exit_value = -1
    /\ CBConstructed

ParseNext ==
    \/ AddArgument
    \/ Call
    \/ Unknown
    \/ RunDocker

SpecParse == ParseInit /\ [][ParseNext]_vars

\* ------------------------------------------------------------------------
\* utils.get_image
\* ------------------------------------------------------------------------

\* The images asked for: a handle, a name on the default registry, a name
\* with a registry prefix, one with a prefix and a tag.
Images == { ImageHandle, ImageName(<<"name">>),
            ImageName(<<"reg.io", "/", "name">>),
            ImageName(<<"reg.io", "/", "team", "/", "name", ":", "1">>) }

\* What the user types at the "Username: " prompt.
Usernames == { <<"alice">>, << >> }

\* get_image is called.
ImgInit ==
    /\ MSEmpty
    /\ RunIdle
    /\ CBIdle
    /\ ParseIdle
    /\ image \in Images
    /\ try_pull \in BOOLEAN
    /\ try_login \in BOOLEAN
    /\ gi_pc = "start"
    /\ gi_calls = << >>
    /\ login_kwargs = {}
    /\ gi_result = "none"

\* A call get_image makes (to the engine client, input or getpass) with what
\* came of it: a result or the exception raised.
EngineCall(call, outcome) == [call |-> call, outcome |-> outcome]

\* get_image returns value.
GiReturn(value) ==
    /\ gi_pc' = "returned"
    /\ gi_result' = value

\* An exception leaves get_image.
GiRaise(e) ==
    /\ gi_pc' = "raised"
    /\ gi_result' = e

\* if isinstance(image, docker.models.images.Image): return image
IsImage ==
    /\ gi_pc = "start"
    /\ IF image.kind = "Image"
       THEN GiReturn("image")
       ELSE gi_pc' = "get" /\ gi_result' = gi_result
    /\ UNCHANGED <<image, try_pull, try_login, gi_calls, login_kwargs, msVars,
                   runVars, cbVars, parseVars>>

\* The lookup that goes on to the pull whatever try_pull says.
ImagesGet_pulls ==
    /\ gi_pc = "get"
    /\ \E outcome \in {"image", "ImageNotFound", "APIError"} :
          /\ gi_calls' = Append(gi_calls, EngineCall("images.get", outcome))
          /\ IF outcome = "image" THEN GiReturn("image")
             ELSE IF outcome = "APIError" THEN GiRaise("APIError")
             ELSE gi_pc' = "pull" /\ gi_result' = gi_result
    /\ UNCHANGED <<image, try_pull, try_login, login_kwargs, msVars, runVars,
                   cbVars, parseVars>>

\* return client.images.get(image); on ImageNotFound: raise without
\* try_pull, else go on to pull; any other error of the engine leaves
\* get_image.
ImagesGet ==
    /\ gi_pc = "get"
    /\ \E outcome \in {"image", "ImageNotFound", "APIError"} :
          /\ gi_calls' = Append(gi_calls, EngineCall("images.get", outcome))
          /\ IF outcome = "image" THEN GiReturn("image")
             ELSE IF outcome = "APIError" THEN GiRaise("APIError")
             ELSE IF ~try_pull THEN GiRaise("ImageNotFound")
             ELSE gi_pc' = "pull" /\ gi_result' = gi_result
    /\ UNCHANGED <<image, try_pull, try_login, login_kwargs, msVars, runVars,
                   cbVars, parseVars>>

\* The registry of an image name: what is before the first "/", or "Default".
Registry(name) == IF \E i \in 1..Len(name) : name[i] = "/" THEN name[1] ELSE "Default"

\* return client.images.pull(image); on APIError: raise without try_login,
\* else the registry is worked out of the name and put into kwargs unless it
\* is "Default".
ImagesPull ==
    /\ gi_pc = "pull"
    /\ \E outcome \in {"image", "APIError"} :
          /\ gi_calls' = Append(gi_calls, EngineCall("images.pull", outcome))
          /\ IF outcome = "image"
             THEN GiReturn("image") /\ login_kwargs' = login_kwargs
             ELSE IF ~try_login
             THEN GiRaise("APIError") /\ login_kwargs' = login_kwargs
             ELSE /\ gi_pc' = "username"
                  /\ gi_result' = gi_result
                  /\ login_kwargs' = IF Registry(image.name) # "Default"
                                     THEN {<<"registry", <<Registry(image.name)>>>>}
                                     ELSE {}
    /\ UNCHANGED <<image, try_pull, try_login, msVars, runVars, cbVars, parseVars>>

\* kwargs["username"] = str(input("Username: "))
Username ==
    /\ gi_pc = "username"
    /\ gi_calls' = Append(gi_calls, EngineCall("input", "ok"))
    /\ \E u \in Usernames : login_kwargs' = login_kwargs \cup {<<"username", u>>}
    /\ gi_pc' = "login"
    /\ UNCHANGED <<image, try_pull, try_login, gi_result, msVars, runVars, cbVars,
                   parseVars>>

\* client.login(**kwargs) without a password: when it goes through, the try
\* statement is done and so is the function, which returns None; on APIError
\* the password is asked for.
Login ==
    /\ gi_pc = "login"
    /\ \E outcome \in {"ok", "APIError"} :
          /\ gi_calls' = Append(gi_calls, EngineCall("login", outcome))
          /\ IF outcome = "ok"
             THEN GiReturn("None")
             ELSE gi_pc' = "password" /\ gi_result' = gi_result
    /\ UNCHANGED <<image, try_pull, try_login, login_kwargs, msVars, runVars,
                   cbVars, parseVars>>

\* kwargs["password"] = getpass.getpass(); client.login(**kwargs), whose
\* APIError leaves get_image.
Password ==
    /\ gi_pc = "password"
    /\ login_kwargs' = login_kwargs \cup {<<"password", <<"secret">>>>}
    /\ \E outcome \in {"ok", "APIError"} :
          /\ gi_calls' = gi_calls \o <<EngineCall("getpass", "ok"),
                                       EngineCall("login", outcome)>>
          /\ IF outcome = "ok"
             THEN gi_pc' = "pull_again" /\ gi_result' = gi_result
             ELSE GiRaise("APIError")
    /\ UNCHANGED <<image, try_pull, try_login, msVars, runVars, cbVars, parseVars>>

\* return client.images.pull(image), after the login with the password.
PullAgain ==
    /\ gi_pc = "pull_again"
    /\ \E outcome \in {"image", "APIError"} :
          /\ gi_calls' = Append(gi_calls, EngineCall("images.pull", outcome))
          /\ IF outcome = "image" THEN GiReturn("image") ELSE GiRaise("APIError")
    /\ UNCHANGED <<image, try_pull, try_login, login_kwargs, msVars, runVars,
                   cbVars, parseVars>>

ImgNext ==
    \/ IsImage
    \/ ImagesGet
    \/ ImagesPull
    \/ Username
    \/ Login
    \/ Password
    \/ PullAgain

SpecImg == ImgInit /\ [][ImgNext]_vars

\* ------------------------------------------------------------------------
\* Claims on the command builder
\* ------------------------------------------------------------------------

\* The path leaves resolved so far, as a set of positions.
Resolved == 1..Len(hist)

\* C9: for every path leaf the builder processes, under any mount policy, the
\* container-path token appended to the command refers to the mount registered
\* for that leaf: it is the mount's target when the path itself is bound, the
\* mount's target joined with the path's base name when the parent is bound.
C9_TokenRefersToMount ==
    \A i \in Resolved :
        hist[i].token =
            IF hist[i].parent
            THEN Str(JoinPath(ParsePath(hist[i].mount.Target), Name(hist[i].dp.path)))
            ELSE hist[i].mount.Target

\* C10: passing the same DockerPath object through the builder a second time
\* adds no second mount: the MountSet has the same entries after that
\* resolution as before it.
C10_SecondResolutionAddsNothing ==
    \A j \in Resolved :
        (hist[j].given /\ \E i \in 1..(j - 1) : hist[i].given /\ hist[i].dp = hist[j].dp)
            => hist[j].after = hist[j].before

\* C11: when parsing leaves unrecognized tokens, the command handed to the
\* container engine is the tokens of the declared arguments followed by
\* exactly those unrecognized tokens, verbatim and in their order.
C11_UnknownTokensEndCommand ==
    handed.done => handed.command = run_command \o unknown_args

\* The leaves of a value in the order _recursive_resolve_args walks them.
RECURSIVE LeavesOf(_)
LeavesOf(v) ==
    IF v.kind # "list" THEN <<v>>
    ELSE IF v.items = << >> THEN << >>
    ELSE LeavesOf(Head(v.items)) \o LeavesOf(ListValue(Tail(v.items)))

IsPrefix(s, t) == Len(s) <= Len(t) /\ SubSeq(t, 1, Len(s)) = s

\* What a call of an action did to the command: cmd before, cmd2 after.
OptionThenValues(c, cmd, cmd2) ==
    LET n == Len(cmd)
        o == IF c.a.option_string = << >> THEN 0 ELSE 1
        leaves == LeavesOf(c.values)
    IN  /\ IsPrefix(cmd, cmd2)
        /\ o = 1 => (Len(cmd2) > n /\ cmd2[n + 1] = c.a.option_string)
        /\ Len(cmd2) <= n + o + Len(leaves)
        /\ c.err = "none" => Len(cmd2) = n + o + Len(leaves)
        /\ \A i \in 1..(Len(cmd2) - n - o) :
               /\ cmd2[n + o + i] # c.a.option_string
               /\ (leaves[i].kind = "str" /\ c.a.hidden_type # "Path")
                      => cmd2[n + o + i] = leaves[i].s

\* The parser's own options, which DockerAction.__call__ consumes.
OwnOptions == {<<"--dockrice-verbose">>, <<"--gpus">>}

BadValue ==
    /\ lastcall.removed
    /\ lastcall.a.option_string \notin OwnOptions
    /\ \E i \in 1..Len(LeavesOf(lastcall.values)) :
          LET v == LeavesOf(lastcall.values)[i]
          IN  \/ ConvertError(lastcall.a.hidden_type, v) # "none"
              \/ /\ lastcall.a.hidden_choices # "None"
                 /\ Convert(lastcall.a.hidden_type, v) \notin Choices

\* C13: a value that is none of the choices and a value the type conversion
\* fails on both reach the caller as an ArgumentError, and run_image is not
\* called.
C13_BadValueIsArgumentError ==
    BadValue => (cberr = "ArgumentError" /\ ~handed.done)

\* C14: with mount_parent left at None a resolution binds the parent
\* directory exactly when the host path does not exist when it is resolved,
\* and the path itself exactly when it exists; True and False are used as
\* given. The registered mount shows it: its source is the resolved parent
\* or the resolved path.
C14_ParentBoundIffMissing ==
    \A i \in Resolved :
        LET dp == hist[i].dp
            bind_parent == IF dp.mount_parent = "None"
                           THEN Resolve(dp.path) \notin hist[i].ex
                           ELSE dp.mount_parent = "True"
        IN  /\ hist[i].parent = bind_parent
            /\ hist[i].mount.Source =
                   Str(Resolve(IF bind_parent THEN Parent(dp.path) ELSE dp.path))

\* The same path was resolved twice with mount_parent None, once while it
\* did not exist and once while it did.
C14_Witness ==
    \E i, j \in Resolved :
        /\ hist[i].dp = hist[j].dp
        /\ hist[i].dp.mount_parent = "None"
        /\ hist[i].parent
        /\ ~hist[j].parent

\* The call made last resolved a path with the mount settings of an argument
\* whose explicit mount_path is not absolute.
RelativeTarget ==
    /\ lastcall.removed
    /\ lastcall.a.hidden_type = "Path"
    /\ lastcall.a.factory.mount_path.opt = "explicit"
    /\ ~IsAbsolute(lastcall.a.factory.mount_path.to)
    /\ LeavesOf(lastcall.values) # << >>

AbsoluteString(s) == IsAbsolute(ParsePath(s))

\* C15: every container path produced for a DockerPath is absolute: the
\* tokens appended for path leaves, the targets of the registered mounts and
\* of the default mounts; a resolution whose mount settings give a target
\* that is not absolute fails with the assertion, and nothing with a relative
\* target is registered.
C15_ContainerPathsAbsolute ==
    /\ \A i \in Resolved :
          /\ IsAbsolute(hist[i].mount_path)
          /\ AbsoluteString(hist[i].token)
          /\ AbsoluteString(hist[i].mount.Target)
    /\ \A i \in 1..Len(data) : AbsoluteString(heap[data[i]].Target)
    /\ \A i \in 1..Len(default_mounts) : AbsoluteString(heap[default_mounts[i]].Target)
    /\ RelativeTarget => (cberr = "AssertionError" /\ lastcall.err = "AssertionError")

\* A path was resolved with a relative explicit mount_path, and the call
\* failed.
C15_Witness ==
    /\ RelativeTarget
    /\ cberr = "AssertionError"

\* C16: a resolution that binds the parent registers a mount whose source is
\* the resolved host parent directory of the path and whose target is the
\* parent of the container path handed out, which ends with the path's base
\* name (with an explicit mount_path: the configured path joined with the
\* name, the target being the configured path); a resolution that binds the
\* path registers its resolved host path at the container path. Each
\* resolution gives one mount, so the set grows by one entry at most.
C16_MountOfResolution ==
    \A i \in Resolved :
        LET dp == hist[i].dp
            container_path == ParsePath(hist[i].token)
        IN  /\ IF hist[i].parent
               THEN /\ hist[i].mount.Source = Str(Parent(Resolve(dp.path)))
                    /\ hist[i].mount.Target = Str(Parent(container_path))
                    /\ Name(container_path) = Name(dp.path)
                    /\ dp.mount_path.opt = "explicit" =>
                          /\ container_path = JoinPath(dp.mount_path.to, Name(dp.path))
                          /\ hist[i].mount.Target = Str(dp.mount_path.to)
               ELSE /\ hist[i].mount.Source = Str(Resolve(dp.path))
                    /\ hist[i].mount.Target = hist[i].token
            /\ Len(hist[i].after) \in {Len(hist[i].before), Len(hist[i].before) + 1}

\* The path leaves the call with number c resolved.
ResolvedIn(c) == {i \in Resolved : hist[i].call = c}

\* C17: a list of paths, nested or not, gets one container path per leaf,
\* and a leaf path that comes a second time in the same list adds no second
\* mount: the set is the same after its resolution as before it.
C17_OneMountPerLeafPath ==
    /\ (lastcall.err = "none" /\ lastcall.a.hidden_type = "Path") =>
           Cardinality(ResolvedIn(ncalls)) = Len(LeavesOf(lastcall.values))
    /\ \A i, j \in Resolved :
           (i < j /\ hist[i].call = hist[j].call /\ hist[i].dp = hist[j].dp)
               => hist[j].after = hist[j].before

\* The positions of the set whose entry has the (target, source) pair of item.
Matching(h, d, item) == {i \in 1..Len(d) : PairOf(h[d[i]]) = PairOf(h[item])}

\* The sequence without its i-th element.
Without(seq, i) == SubSeq(seq, 1, i - 1) \o SubSeq(seq, i + 1, Len(seq))

\* C18: discard and remove delete the entry that has the (target, source)
\* pair of the mount they are called with, whatever its read-only flag, and
\* no other entry; with no such entry discard leaves the set as it is and
\* raises nothing, and remove raises KeyError and leaves the set as it is.
C18_RemovalByPair ==
    [][last'.op \in {"discard", "remove"} =>
          LET match == Matching(heap, data, last'.item)
          IN  IF match = {}
              THEN /\ data' = data
                   /\ last'.err = IF last'.op = "remove" THEN "KeyError" ELSE "none"
              ELSE /\ \E i \in match : data' = Without(data, i)
                   /\ Matching(heap, data', last'.item) = {}
                   /\ last'.err = "none"]_vars

\* A remove deleted the entry that differs from its argument in the flag.
C18_Witness ==
    /\ last.op = "remove"
    /\ last.kind = "mirror"
    /\ last.err = "none"
    /\ Len(data) >= 1

\* C19: what run_image returns is the status code the container exited
\* with, and the DockerizeDoneExit of parse_known_args ends the process with
\* that code; once the status is read, a status other than zero makes no
\* exception: without a signal the call returns.
C19_ExitWithContainerStatus ==
    /\ pc = "returned" => (status = exitCode /\ exc = "none")
    /\ exit_value # -1 => (pc = "returned" /\ exit_value = exitCode)
    /\ (status # -1 /\ deliveries = << >>) => exc = "none"

\* The container exited with status 1 and the process exited with 1.
C19_Witness ==
    /\ exitCode = 1
    /\ pc = "returned"
    /\ exit_value = 1

\* C20: whenever get_image returns, on every way through the lookup, the
\* pull and the login with its retry, what it returns is an image.
C20_ReturnsImage ==
    gi_pc = "returned" => gi_result = "image"

\* The log lines 1..n in the order the container wrote them.
Lines(n) == [i \in 1..n |-> i]

SameObject(i, j) ==
    \/ i = j
    \/ hist[i].given /\ hist[j].given /\ hist[i].dp = hist[j].dp

\* C23: the container path and the bind-parent decision of one DockerPath are
\* write-once: every read of mount_path and of mount_parent of the same
\* object, under any mount policy and whatever happens to the host path between
\* the reads, gives the value of the first read. (A resolution reads mount_path
\* twice: once for the token, once for the mount.)
C23_WriteOnce ==
    \A i \in Resolved : \A j \in Resolved :
        SameObject(i, j) =>
            /\ hist[i].token = Str(hist[j].mount_path)
            /\ hist[i].parent = hist[j].parent


\* A parse in which argparse knows every token: arguments are declared, their
\* actions called, and run_docker hands the command and the mounts over.
HandNext ==
    \/ AddArgument
    \/ Call
    \/ RunDocker

SpecHand == CBInit /\ [][HandNext]_vars

\* Some mount of the sequence has the (target, source) pair.
HasPair(mounts, pair) == \E i \in 1..Len(mounts) : PairOf(mounts[i]) = pair

\* The declared argument's action has been called: argparse stored its values.
Invoked == namespace # NoValue

C25_SuppliedAgain ==
    (ncalls >= 1 /\ lastcall.a.default_mount # 0) =>
        /\ lastcall.removed
        /\ lastcall.err # "ValueError"


\* C26: a Mount is immutable once constructed; building a second MountSet from
\* the entries of an existing one plus further mounts, as run_docker does with
\* the argument mounts and the default mounts, leaves every entry of the
\* existing set as it was, the read-only flag included.
C26_ExistingEntriesUnchanged ==
    handed.done => Entries(heap, data) = handed.existing


\* The value with every leaf replaced by what the conversion makes of it: the
\* typed value, and a DockerPath for a path.
RECURSIVE ConvertedShape(_, _)
ConvertedShape(a, v) ==
    IF v.kind = "list"
    THEN ListValue([i \in 1..Len(v.items) |-> ConvertedShape(a, v.items[i])])
    ELSE LET conv == Convert(a.hidden_type, v)
         IN  IF conv.kind = "Path"
             THEN DockerPathValue(FactoryCall(a.factory, conv.path))
             ELSE conv

\* token is a container path of dp: what mount_path gives for it on some read.
ContainerPath(dp, ex, token) ==
    \E k \in 0..uuids : token = Str(mount_path(dp, ex, k).path)

\* C27: the walk over an argument value is depth-first and keeps the shape:
\* the value stored has the nested-list shape of the input with each leaf
\* replaced by its converted value, and the command gains exactly one token per
\* leaf, in the order of the leaves: the original string for a plain scalar,
\* the container path for a path.
C27_WalkKeepsShape ==
    (/\ ncalls >= 1
     /\ lastcall.a.option_string \notin OwnOptions
     /\ lastcall.removed
     /\ lastcall.err = "none") =>
        LET a == lastcall.a
            leaves == LeavesOf(lastcall.values)
            n == Len(lastcall.before) + (IF a.option_string = << >> THEN 0 ELSE 1)
        IN  /\ namespace = ConvertedShape(a, lastcall.values)
            /\ IsPrefix(lastcall.before, run_command)
            /\ Len(run_command) = n + Len(leaves)
            /\ \A i \in 1..Len(leaves) :
                   LET conv == ConvertedShape(a, leaves[i])
                       token == run_command[n + i]
                   IN  IF conv.kind = "DockerPath"
                       THEN \E j \in Resolved :
                               /\ hist[j].call = ncalls
                               /\ hist[j].dp = conv.dp
                               /\ hist[j].token = token
                               /\ ContainerPath(conv.dp, hist[j].ex, token)
                       ELSE token = leaves[i].s

\* A list in a list went through as paths: the stored value is a list whose
\* first item is a list.
C27_Witness ==
    /\ ncalls >= 1
    /\ lastcall.values \in NestedValues
    /\ lastcall.a.hidden_type = "Path"
    /\ lastcall.err = "none"
    /\ namespace.kind = "list"
    /\ Len(namespace.items) = 2
    /\ namespace.items[1].kind = "list"
    /\ namespace.items[2].kind = "DockerPath"


\* The calls get_image made to the engine, in order.
EngineCalls ==
    SelectSeq(gi_calls, LAMBDA c : c.call \in {"images.get", "images.pull", "login"})

\* The steps in the order of the escalation: lookup, pull, the login (without
\* and with a password), pull again.
Escalation == <<"images.get", "images.pull", "login", "login", "images.pull">>

\* C28: get_image goes through local lookup, pull, login, pull again in this
\* order, each step only after the one before failed (the second pull once the
\* login with the password went through): an image handle is returned with no
\* engine call; a lookup that succeeds is followed by no pull; without try_pull
\* the not-found error leaves get_image and no pull is made; without try_login
\* the pull's error leaves get_image and no login is made; an error of the last
\* step reaches the caller.
C28_EscalationOrder ==
    LET e == EngineCalls
        n == Len(e)
        done == gi_pc \in {"returned", "raised"}
    IN  /\ n <= Len(Escalation)
        /\ \A i \in 1..n : e[i].call = Escalation[i]
        /\ n >= 2 => (e[1].outcome = "ImageNotFound" /\ try_pull)
        /\ n >= 3 => (e[2].outcome = "APIError" /\ try_login)
        /\ n >= 4 => e[3].outcome = "APIError"
        /\ n >= 5 => e[4].outcome = "ok"
        /\ (image.kind = "Image" /\ gi_pc # "start") =>
               (gi_calls = << >> /\ gi_pc = "returned" /\ gi_result = "image")
        /\ (n >= 1 /\ e[n].outcome = "image") =>
               (gi_pc = "returned" /\ gi_result = "image")
        /\ (n = 1 /\ e[1].outcome = "ImageNotFound" /\ ~try_pull) =>
               (gi_pc = "raised" /\ gi_result = "ImageNotFound")
        /\ (n = 2 /\ e[2].outcome = "APIError" /\ ~try_login) =>
               (gi_pc = "raised" /\ gi_result = "APIError")
        /\ (n = 5 /\ e[5].outcome = "APIError") =>
               (gi_pc = "raised" /\ gi_result = "APIError")
        /\ (done /\ gi_pc = "raised") => (n >= 1 /\ gi_result = e[n].outcome)

\* Every step was taken and the second pull failed too: its error is what the
\* caller gets.
C28_Witness ==
    /\ Len(EngineCalls) = 5
    /\ EngineCalls[5].outcome = "APIError"
    /\ gi_pc = "raised"
    /\ gi_result = "APIError"


\* The ways run_image moves on: through __enter__, the with body and
\* __exit__ in this order, out of any of them with an exception, and to the
\* end of the process from anywhere.
LifecycleEdges ==
    { <<"idle", "install">>, <<"install", "assign">>, <<"assign", "logs">>,
      <<"logs", "wait">>, <<"wait", "restore">>, <<"logs", "restore">>,
      <<"restore", "returned">>, <<"restore", "raised">>,
      <<"install", "raised">>, <<"assign", "raised">> }
        \cup { <<p, "dead">> : p \in InEnter \cup InBody \cup InExit }

\* One step of a run in lifecycle order.
LifecycleStep ==
    /\ pc' # pc => <<pc, pc'>> \in LifecycleEdges
    /\ pc \in Ended => pc' = pc
    /\ run_detach' # run_detach =>
          (pc = "install" /\ Installed = CATCHABLE_SIGNALS /\ run_detach' = "detached")
    /\ engine' # engine =>
          \/ /\ engine = "absent" /\ engine' = "running"
             /\ pc = "install" /\ pc' = "assign"
             /\ run_detach = "none" /\ run_detach' = "detached"
          \/ engine = "running" /\ engine' = "exited"
          \/ /\ engine' = "removed"
             /\ auto_remove
             /\ pc = "restore" /\ pc' \in {"returned", "raised"}
             /\ xi > Len(old_handlers)
             /\ \A sig \in CATCHABLE_SIGNALS : handlers[sig] = prev[sig]
    /\ consumed' # consumed => (pc = "logs" /\ container = "set")
    /\ status' # status => (pc = "wait" /\ status = -1 /\ consumed = emitted)
    /\ (pc = "logs" /\ pc' = "restore") => exc' # "none"
    /\ xi' # xi => (status' # -1 \/ exc' # "none")
    /\ pc' = "returned" =>
          (status' # -1 /\ xi' > Len(old_handlers) /\ (auto_remove => engine' = "removed"))

\* C29: a run of run_image goes through the lifecycle in order: the handlers
\* are installed, then one container is launched, detached whatever the caller
\* passed as detach, then the logs are read, then the exit status, then the
\* previous handlers are put back, then the container is removed if
\* auto_remove is set and never without it; a state the run ended in is not
\* left again.
C29_LifecycleOrder == [][LifecycleStep]_vars

\* A run called with detach=False went through the whole lifecycle: launched
\* detached, status read, container removed.
C29_Witness ==
    /\ pc = "returned"
    /\ ~detach
    /\ run_detach = "detached"
    /\ status # -1
    /\ auto_remove
    /\ engine = "removed"

\* The signals delivered in the Starting phase, to the runner's handler, with
\* the container started and not yet recorded.
InStarting ==
    {i \in Delivered : deliveries[i].starting /\ deliveries[i].via = "runner"}

\* C30: a signal arriving in the Starting phase never leaves a started
\* container without cleanup nor the forwarding handlers installed: when the
\* run has ended and the container was started when the signal came, the
\* signal was sent to the container, the container is removed and the previous
\* handlers are back.
C30_StartingSignalCleanedUp ==
    (pc \in Ended /\ auto_remove /\ InStarting # {}) =>
        /\ \A i \in InStarting : deliveries[i].fwd = "sent"
        /\ engine = "removed"
        /\ \A sig \in CATCHABLE_SIGNALS : handlers[sig] = prev[sig]

====
